---- MODULE Spec2Model ----
(***************************************************************************)
(* A model of convert.py (Ocean-From-Motion): the structural segmenter     *)
(* (split_into_sections, section_to_html, classify_heading_level) and the  *)
(* OMML-to-LaTeX translator (_latex_escape_text, omml_to_latex).           *)
(*                                                                         *)
(* The program is a single-threaded batch converter made of pure           *)
(* functions.  Each function is modelled by operators that compute what    *)
(* the code computes; a specification draws the function's input in Init   *)
(* and its actions run the function's loop.                                *)
(*                                                                         *)
(* Python indices are kept 0-based: a slice elements[lo:hi] is the record  *)
(* [start |-> lo, stop |-> hi].  A Python str is a sequence of one-        *)
(* character strings wherever the code looks inside it.                    *)
(***************************************************************************)
EXTENDS Integers, Sequences, FiniteSets, TLC

VARIABLES
    pc,             \* position of the function under study
    elements,       \* split_into_sections: the document sequence
    sections,       \* split_into_sections: the result dict
    idx,            \* split_into_sections: loop index over chapter_starts
    heading_text,   \* classify_heading_level: the argument
    level,          \* classify_heading_level: the result
    elem,           \* omml_to_latex: the OMML element
    text_pos,       \* _latex_escape_text: how many characters of text are done
    out,            \* _latex_escape_text: the list of output pieces
    latex,          \* omml_to_latex: the result
    section_elements,   \* section_to_html: the argument
    skip_count,         \* section_to_html: the argument
    sec_pos,            \* section_to_html: how many elements are done
    skipped,            \* section_to_html: the local counter
    has_math,           \* section_to_html: the local flag, returned
    html_parts,         \* section_to_html: the list of rendered blocks
    rendered_from,      \* history: the element index each block came from
    elided,             \* history: the element indices dropped by skip_count
    ch_num,             \* main: the loop variable over the chapters
    app_idx,            \* main: how many appendices the second loop has done
    page_id,            \* main: the name of the page being rendered
    pages,              \* main: the names of the pages written, in order
    warnings,           \* main: the names reported as not found, in order
    subtitle,           \* main: the subtitle extracted for a chapter, or None
    subtitle_from       \* history: the element index the subtitle came from

vars == <<pc, elements, sections, idx, heading_text, level,
          elem, text_pos, out, latex,
          section_elements, skip_count, sec_pos, skipped, has_math, html_parts,
          rendered_from, elided,
          ch_num, app_idx, page_id, pages, warnings, subtitle, subtitle_from>>

splitVars == <<elements, sections, idx>>
headingVars == <<heading_text, level>>
mathVars == <<elem, text_pos, out, latex>>
sectionVars == <<section_elements, skip_count, sec_pos, skipped, has_math,
                 html_parts, rendered_from, elided>>

mainVars == <<ch_num, app_idx, page_id, pages, warnings, subtitle, subtitle_from>>

\* The variables of the functions a specification does not run.
SplitIdle == elements = <<>> /\ sections = <<>> /\ idx = 0
HeadingIdle == heading_text = <<>> /\ level = ""
MathIdle == elem = <<>> /\ text_pos = 0 /\ out = <<>> /\ latex = <<>>
SectionIdle ==
    /\ section_elements = <<>> /\ skip_count = 0 /\ sec_pos = 0 /\ skipped = 0
    /\ has_math = FALSE /\ html_parts = <<>> /\ rendered_from = <<>> /\ elided = <<>>
\* subtitle = None
NoSubtitle == [none |-> TRUE, text |-> <<>>]

MainIdle ==
    /\ ch_num = 0 /\ app_idx = 0 /\ page_id = "" /\ pages = <<>> /\ warnings = <<>>
    /\ subtitle = NoSubtitle /\ subtitle_from = -1

(***************************************************************************)
(* Bounds of the model.                                                    *)
(***************************************************************************)
MaxElems == 4       \* longest document sequence
MaxHeadingLen == 7  \* longest heading text, in characters
MaxRunLen == 3      \* longest run text, in characters
MaxNaryKids == 4    \* most children of an m:nary element
MaxFuncKids == 2    \* most children of an m:func element
MaxDelimKids == 3   \* most children of an m:d element
MaxFracKids == 3    \* most children of an m:f element
MaxSectionLen == 4  \* longest section handed to section_to_html
MaxSkip == 2        \* largest skip_count
MaxMissing == 1     \* most sections absent from, or present in, the map main reads
MaxChapterRest == 2 \* most elements of a chapter after its heading

(***************************************************************************)
(* Python values.                                                          *)
(***************************************************************************)
\* None, for the local variables app_a_ei / app_b_ei (an index or None).
None == -1

\* Python truthiness of an Optional[int]: None and 0 are both falsy.
Truthy(x) == x # None /\ x # 0

\* The element indices a slice [lo:hi] of a sequence of length n covers.
SliceIndices(r, n) == {i \in 0 .. (n - 1) : r.start <= i /\ i < r.stop}

\* d[key] = val on a dict.
Put(d, key, val) ==
    [k \in (DOMAIN d) \cup {key} |-> IF k = key THEN val ELSE d[k]]

(***************************************************************************)
(* Python strings: a str is a sequence of one-character strings.  An ASCII *)
(* character is itself; any other character is named by its code point     *)
(* ("U03B1" is the Greek small letter alpha).                              *)
(***************************************************************************)
AsciiLetters ==
    {"a", "b", "c", "d", "e", "f", "g", "h", "i", "j", "k", "l", "m",
     "n", "o", "p", "q", "r", "s", "t", "u", "v", "w", "x", "y", "z",
     "A", "B", "C", "D", "E", "F", "G", "H", "I", "J", "K", "L", "M",
     "N", "O", "P", "Q", "R", "S", "T", "U", "V", "W", "X", "Y", "Z"}

\* The characters outside ASCII, among those drawn, for which str.isalpha()
\* holds: the Greek and double-struck letters of UNICODE_TO_LATEX, and chi
\* (U03C7), a letter that is not a key of the table.
UnicodeLetters ==
    {"U03BA", "U03C6", "U03B4", "U03A3", "U03C3", "U03C0", "U03B1", "U03B2",
     "U03B3", "U03B5", "U03B6", "U03B7", "U03B8", "U03BB", "U03BC", "U03BD",
     "U03BE", "U03C1", "U03C4", "U03C9", "U03A9", "U0394", "U03A6", "U0393",
     "U039B", "U03A0", "U0398", "U2115", "U2124", "U211D", "U211A", "U2102",
     "U1D705", "U03C7"}

\* [a-zA-Z] in a regular expression
IsAsciiLetter(c) == c \in AsciiLetters

\* c.isalpha()
IsAlpha(c) == c \in AsciiLetters \cup UnicodeLetters

\* \d in a regular expression, on the digits drawn
IsDigit(c) == c \in {"0", "1", "2", "3", "4", "5", "6", "7", "8", "9"}

\* \s in a regular expression, and the characters str.strip() removes: the
\* space, the thin space (U2009) and the four-per-em space (U2005).
IsSpace(c) == c \in {" ", "U2009", "U2005"}

\* s.isalpha()
StrIsAlpha(s) == s # <<>> /\ \A k \in 1 .. Len(s) : IsAlpha(s[k])

\* s.strip()
Strip(s) ==
    LET keep == {k \in 1 .. Len(s) : ~IsSpace(s[k])}
    IN  IF keep = {} THEN <<>>
        ELSE SubSeq(s, CHOOSE k \in keep : \A j \in keep : k <= j,
                       CHOOSE k \in keep : \A j \in keep : j <= k)

\* "".join(parts)
RECURSIVE Join(_)
Join(parts) == IF parts = <<>> THEN <<>> ELSE Head(parts) \o Join(Tail(parts))

\* All sequences over S of a length in lo .. hi.
SeqsOf(S, lo, hi) == UNION {[1 .. n -> S] : n \in lo .. hi}

(***************************************************************************)
(* classify_heading_level                                                  *)
(***************************************************************************)
\* \d+ from position p (1-based) of s, greedy: the position after the digits,
\* p itself when there is none.  Giving digits back never helps either
\* pattern: what follows \d+ in them is never a digit.
DigitsEnd(s, p) ==
    LET stops == {q \in p .. (Len(s) + 1) : q = Len(s) + 1 \/ ~IsDigit(s[q])}
    IN  CHOOSE q \in stops : \A r \in stops : q <= r

\* A literal dot at position p.
DotAt(s, p) == p <= Len(s) /\ s[p] = "."

\* The closing atom of the pattern at position p: \. for the first pattern,
\* \s for the second.
CloseAt(s, p, closing) ==
    /\ p <= Len(s)
    /\ IF closing = "dot" THEN s[p] = "." ELSE IsSpace(s[p])

\* re.match(r"^(\d+)(?:\.(\d+))?(?:\.(\d+))?" + closing, s): whether it matches
\* and whether groups 2 and 3 took part, trying each optional group before
\* leaving it out, as the backtracking matcher does.  (Leaving group 2 out and
\* taking group 3 is tried only after taking group 2 alone has failed on the
\* same characters, so it never matches.)
HeadingMatch(s, closing) ==
    LET p1 == DigitsEnd(s, 1)
        \* the end of ".digits" from p, or 0
        DotDigits(p) == IF DotAt(s, p) /\ DigitsEnd(s, p + 1) > p + 1
                        THEN DigitsEnd(s, p + 1) ELSE 0
        p2 == DotDigits(p1)
        p3 == IF p2 = 0 THEN 0 ELSE DotDigits(p2)
        no == [matched |-> FALSE, group2 |-> FALSE, group3 |-> FALSE]
    IN  IF p1 = 1 THEN no
        ELSE IF p3 # 0 /\ CloseAt(s, p3, closing)
             THEN [matched |-> TRUE, group2 |-> TRUE, group3 |-> TRUE]
        ELSE IF p2 # 0 /\ CloseAt(s, p2, closing)
             THEN [matched |-> TRUE, group2 |-> TRUE, group3 |-> FALSE]
        ELSE IF CloseAt(s, p1, closing)
             THEN [matched |-> TRUE, group2 |-> FALSE, group3 |-> FALSE]
        ELSE no

classify_heading_level(text) ==
    LET m1 == HeadingMatch(Strip(text), "dot")
        m == IF m1.matched THEN m1 ELSE HeadingMatch(Strip(text), "space")
    IN  IF m.matched /\ m.group3 THEN "h4"
        ELSE IF m.matched /\ m.group2 THEN "h3"
        ELSE "h2"

\* The characters a heading text is drawn from.
HeadingChars == {"4", ".", " ", "T"}

HeadingInit ==
    /\ pc = "heading_start"
    /\ heading_text \in SeqsOf(HeadingChars, 0, MaxHeadingLen)
    /\ level = ""
    /\ SplitIdle /\ MathIdle /\ SectionIdle /\ MainIdle

\* level = classify_heading_level(text)
ClassifyHeadingLevel ==
    /\ pc = "heading_start"
    /\ level' = classify_heading_level(heading_text)
    /\ pc' = "heading_done"
    /\ UNCHANGED <<heading_text, splitVars, mathVars, sectionVars, mainVars>>

HeadingNext == ClassifyHeadingLevel

SpecHeading == HeadingInit /\ [][HeadingNext]_vars

(***************************************************************************)
(* Properties of classify_heading_level.                                   *)
(***************************************************************************)
\* The trimmed text is n dot-separated numbers, an optional dot, a space and
\* whatever follows: the shape is_section_heading accepts, with n components.
RECURSIVE NumberedPrefix(_, _, _)
NumberedPrefix(s, p, n) ==
    LET q == DigitsEnd(s, p)
    IN  /\ q > p
        /\ IF n = 1
           THEN \/ q <= Len(s) /\ IsSpace(s[q])
                \/ DotAt(s, q) /\ q + 1 <= Len(s) /\ IsSpace(s[q + 1])
           ELSE DotAt(s, q) /\ NumberedPrefix(s, q + 1, n - 1)

Components(s) ==
    IF \E n \in 1 .. 3 : NumberedPrefix(s, 1, n)
    THEN CHOOSE n \in 1 .. 3 : NumberedPrefix(s, 1, n)
    ELSE 0

\* C2: for a numbered heading text of one, two or three dot-separated numeric
\* components before the first space, the level is h2, h3 or h4 respectively.
C2_HeadingLevelByComponents ==
    pc = "heading_done" =>
        LET n == Components(Strip(heading_text))
        IN  /\ n = 1 => level = "h2"
            /\ n = 2 => level = "h3"
            /\ n = 3 => level = "h4"

(***************************************************************************)
(* OMML elements: an lxml element is its local tag name, its m:val         *)
(* attribute, its text and its children.                                   *)
(***************************************************************************)
\* An element without the m:val attribute.
NoAttr == "<absent>"

Node(tag, val, text, kids) ==
    [tag |-> tag, val |-> val, text |-> text, kids |-> kids]

\* prop.get(f"{{{MATH_NS}}}val", default)
AttrGet(node, default) == IF node.val = NoAttr THEN default ELSE node.val

\* <m:r> with an optional <m:rPr><m:sty m:val=sty/></m:rPr> and one <m:t>.
RunNode(text, sty) ==
    Node("r", NoAttr, <<>>,
         (IF sty = NoAttr THEN <<>>
          ELSE <<Node("rPr", NoAttr, <<>>, <<Node("sty", sty, <<>>, <<>>)>>)>>)
         \o <<Node("t", NoAttr, text, <<>>)>>)

\* UNICODE_TO_LATEX: each key is named by its code point, each value is the
\* replacement string.
UNICODE_TO_LATEX ==
    [U03BA |-> <<"\\", "k", "a", "p", "p", "a">>,
     U03C6 |-> <<"\\", "v", "a", "r", "p", "h", "i">>,
     U03B4 |-> <<"\\", "d", "e", "l", "t", "a">>,
     U03A3 |-> <<"\\", "S", "i", "g", "m", "a">>,
     U03C3 |-> <<"\\", "s", "i", "g", "m", "a">>,
     U03C0 |-> <<"\\", "p", "i">>,
     U03B1 |-> <<"\\", "a", "l", "p", "h", "a">>,
     U03B2 |-> <<"\\", "b", "e", "t", "a">>,
     U03B3 |-> <<"\\", "g", "a", "m", "m", "a">>,
     U03B5 |-> <<"\\", "v", "a", "r", "e", "p", "s", "i", "l", "o", "n">>,
     U03B6 |-> <<"\\", "z", "e", "t", "a">>,
     U03B7 |-> <<"\\", "e", "t", "a">>,
     U03B8 |-> <<"\\", "t", "h", "e", "t", "a">>,
     U03BB |-> <<"\\", "l", "a", "m", "b", "d", "a">>,
     U03BC |-> <<"\\", "m", "u">>,
     U03BD |-> <<"\\", "n", "u">>,
     U03BE |-> <<"\\", "x", "i">>,
     U03C1 |-> <<"\\", "r", "h", "o">>,
     U03C4 |-> <<"\\", "t", "a", "u">>,
     U03C9 |-> <<"\\", "o", "m", "e", "g", "a">>,
     U03A9 |-> <<"\\", "O", "m", "e", "g", "a">>,
     U0394 |-> <<"\\", "D", "e", "l", "t", "a">>,
     U03A6 |-> <<"\\", "P", "h", "i">>,
     U0393 |-> <<"\\", "G", "a", "m", "m", "a">>,
     U039B |-> <<"\\", "L", "a", "m", "b", "d", "a">>,
     U03A0 |-> <<"\\", "P", "i">>,
     U0398 |-> <<"\\", "T", "h", "e", "t", "a">>,
     U2208 |-> <<"\\", "i", "n">>,
     U2209 |-> <<"\\", "n", "o", "t", "i", "n">>,
     U2282 |-> <<"\\", "s", "u", "b", "s", "e", "t">>,
     U2286 |-> <<"\\", "s", "u", "b", "s", "e", "t", "e", "q">>,
     U2283 |-> <<"\\", "s", "u", "p", "s", "e", "t">>,
     U222A |-> <<"\\", "c", "u", "p">>,
     U2229 |-> <<"\\", "c", "a", "p">>,
     U2205 |-> <<"\\", "e", "m", "p", "t", "y", "s", "e", "t">>,
     U221E |-> <<"\\", "i", "n", "f", "t", "y">>,
     U2264 |-> <<"\\", "l", "e", "q">>,
     U2265 |-> <<"\\", "g", "e", "q">>,
     U2260 |-> <<"\\", "n", "e", "q">>,
     U2248 |-> <<"\\", "a", "p", "p", "r", "o", "x">>,
     U2261 |-> <<"\\", "e", "q", "u", "i", "v">>,
     U00B1 |-> <<"\\", "p", "m">>,
     U00D7 |-> <<"\\", "t", "i", "m", "e", "s">>,
     U00F7 |-> <<"\\", "d", "i", "v">>,
     U00B7 |-> <<"\\", "c", "d", "o", "t">>,
     U2192 |-> <<"\\", "t", "o">>,
     U2190 |-> <<"\\", "l", "e", "f", "t", "a", "r", "r", "o", "w">>,
     U2194 |-> <<"\\", "l", "e", "f", "t", "r", "i", "g", "h", "t", "a", "r", "r", "o", "w">>,
     U21D2 |-> <<"\\", "R", "i", "g", "h", "t", "a", "r", "r", "o", "w">>,
     U21D0 |-> <<"\\", "L", "e", "f", "t", "a", "r", "r", "o", "w">>,
     U21D4 |-> <<"\\", "L", "e", "f", "t", "r", "i", "g", "h", "t", "a", "r", "r", "o", "w">>,
     U2200 |-> <<"\\", "f", "o", "r", "a", "l", "l">>,
     U2203 |-> <<"\\", "e", "x", "i", "s", "t", "s">>,
     U00AC |-> <<"\\", "n", "e", "g">>,
     U2227 |-> <<"\\", "w", "e", "d", "g", "e">>,
     U2228 |-> <<"\\", "v", "e", "e">>,
     U2295 |-> <<"\\", "o", "p", "l", "u", "s">>,
     U2297 |-> <<"\\", "o", "t", "i", "m", "e", "s">>,
     U2115 |-> <<"\\", "m", "a", "t", "h", "b", "b", "{", "N", "}">>,
     U2124 |-> <<"\\", "m", "a", "t", "h", "b", "b", "{", "Z", "}">>,
     U211D |-> <<"\\", "m", "a", "t", "h", "b", "b", "{", "R", "}">>,
     U211A |-> <<"\\", "m", "a", "t", "h", "b", "b", "{", "Q", "}">>,
     U2102 |-> <<"\\", "m", "a", "t", "h", "b", "b", "{", "C", "}">>,
     U2032 |-> <<"'">>,
     U2033 |-> <<"'", "'">>,
     U2223 |-> <<"|">>,
     U2300 |-> <<"\\", "e", "m", "p", "t", "y", "s", "e", "t">>,
     U223C |-> <<"\\", "s", "i", "m">>,
     U227E |-> <<"\\", "p", "r", "e", "c", "s", "i", "m">>,
     U1D705 |-> <<"\\", "k", "a", "p", "p", "a">>,
     U2061 |-> <<>>,
     U200B |-> <<>>,
     U200C |-> <<>>,
     U2009 |-> <<"\\", ",">>,
     U2005 |-> <<"\\", ";">>]

(***************************************************************************)
(* _latex_escape_text                                                      *)
(***************************************************************************)
\* re.search(r'\\[a-zA-Z]+$', prev)
EndsWithCommand(prev) ==
    \E k \in 1 .. (Len(prev) - 1) :
        /\ prev[k] = "\\"
        /\ \A j \in (k + 1) .. Len(prev) : IsAsciiLetter(prev[j])

ReservedChars == {"#", "$", "%", "&", "_", "{", "}"}

\* Mutant: a space is put before every replacement that follows a command
\* (the replacement[0].isalpha() test is dropped).
EscapeStep_SpaceAfterCommand(o, ch) ==
    IF ch \in DOMAIN UNICODE_TO_LATEX
    THEN IF /\ o # <<>>
            /\ UNICODE_TO_LATEX[ch] # <<>>
            /\ EndsWithCommand(o[Len(o)])
         THEN o \o << <<" ">>, UNICODE_TO_LATEX[ch] >>
         ELSE Append(o, UNICODE_TO_LATEX[ch])
    ELSE IF ch \in ReservedChars THEN Append(o, <<"\\", ch>>)
    ELSE IF ch = "~" THEN Append(o, <<"\\", "s", "i", "m">>)
    ELSE IF ch = "^" THEN Append(o, <<"\\", "h", "a", "t", "{", "}">>)
    ELSE IF ch = "\\"
         THEN Append(o, <<"\\", "b", "a", "c", "k", "s", "l", "a", "s", "h">>)
    ELSE IF o # <<>> /\ IsAlpha(ch) /\ EndsWithCommand(o[Len(o)])
         THEN o \o << <<" ">>, <<ch>> >>
         ELSE Append(o, <<ch>>)

\* One iteration of the loop over text: the list out after character ch.
EscapeStep(o, ch) ==
    IF ch \in DOMAIN UNICODE_TO_LATEX
    THEN LET replacement == UNICODE_TO_LATEX[ch]
         IN  IF /\ o # <<>>
                /\ replacement # <<>>
                /\ EndsWithCommand(o[Len(o)])
                /\ IsAlpha(replacement[1])
             THEN o \o << <<" ">>, replacement >>
             ELSE Append(o, replacement)
    ELSE IF ch \in ReservedChars THEN Append(o, <<"\\", ch>>)
    ELSE IF ch = "~" THEN Append(o, <<"\\", "s", "i", "m">>)
    ELSE IF ch = "^" THEN Append(o, <<"\\", "h", "a", "t", "{", "}">>)
    ELSE IF ch = "\\"
         THEN Append(o, <<"\\", "b", "a", "c", "k", "s", "l", "a", "s", "h">>)
    ELSE IF o # <<>> /\ IsAlpha(ch) /\ EndsWithCommand(o[Len(o)])
         THEN o \o << <<" ">>, <<ch>> >>
         ELSE Append(o, <<ch>>)

\* The list out after the first n characters of text.
RECURSIVE EscapePieces(_, _)
EscapePieces(text, n) ==
    IF n = 0 THEN <<>> ELSE EscapeStep(EscapePieces(text, n - 1), text[n])

_latex_escape_text(text) == Join(EscapePieces(text, Len(text)))

(***************************************************************************)
(* _join_latex_parts                                                       *)
(***************************************************************************)
RECURSIVE JoinParts(_, _)
\* The list result after the first n parts.
JoinParts(parts, n) ==
    IF n = 0 THEN <<>>
    ELSE LET result == JoinParts(parts, n - 1)
             part == parts[n]
         IN  IF part = <<>> THEN result
             ELSE IF /\ result # <<>>
                     /\ EndsWithCommand(result[Len(result)])
                     /\ IsAlpha(part[1])
                  THEN result \o << <<" ">>, part >>
                  ELSE Append(result, part)

_join_latex_parts(parts) == Join(JoinParts(parts, Len(parts)))

(***************************************************************************)
(* omml_to_latex                                                           *)
(***************************************************************************)
\* The children of elem with the given tag, in order.
KidsTagged(e, tag) == SelectSeq(e.kids, LAMBDA c : c.tag = tag)

\* tag "r": text, the concatenation of the m:t children.
RunText(e) == Join([k \in 1 .. Len(KidsTagged(e, "t")) |-> KidsTagged(e, "t")[k].text])

\* tag "r": is_normal, set by an m:sty property with the value "p".
RunIsNormal(e) ==
    \E k \in 1 .. Len(e.kids) :
        /\ e.kids[k].tag = "rPr"
        /\ \E j \in 1 .. Len(e.kids[k].kids) :
              /\ e.kids[k].kids[j].tag = "sty"
              /\ AttrGet(e.kids[k].kids[j], "") = "p"

\* tag "r", from latex = _latex_escape_text(text) on: a plain run of two or
\* more letters becomes \text{...}.
RunResult(e, escaped) ==
    LET stripped == Strip(RunText(e))
    IN  IF /\ RunIsNormal(e)
           /\ Strip(escaped) # <<>>
           /\ Len(stripped) > 1
           /\ StrIsAlpha(stripped)
        THEN <<"\\", "t", "e", "x", "t", "{">> \o stripped \o <<"}">>
        ELSE escaped

(***************************************************************************)
(* The translation of one math run: omml_to_latex on an m:r element, with  *)
(* the loop of _latex_escape_text run one character at a time.             *)
(***************************************************************************)
\* The characters a run text of up to two characters is drawn from: every key
\* of UNICODE_TO_LATEX, the reserved characters, and a few others.
AllRunChars ==
    (DOMAIN UNICODE_TO_LATEX) \cup ReservedChars
        \cup {"~", "^", "\\", "x", "b", "4", "+", " ", "U03C7"}

\* The characters a longer run text is drawn from: alpha, the element-of sign,
\* the zero-width space, the thin space, double-struck N, and ASCII characters
\* of each branch.
CoreRunChars ==
    {"U03B1", "U2208", "U200B", "U2009", "U2115", "x", "4", " ", "~", "\\", "#"}

RunTexts == SeqsOf(AllRunChars, 0, 2) \cup SeqsOf(CoreRunChars, 3, MaxRunLen)

RunElems == {RunNode(t, sty) : t \in RunTexts, sty \in {NoAttr, "p"}}

RunInit ==
    /\ pc = "run_escape"
    /\ elem \in RunElems
    /\ text_pos = 0
    /\ out = <<>>
    /\ latex = <<>>
    /\ SplitIdle /\ HeadingIdle /\ SectionIdle /\ MainIdle

\* _latex_escape_text: one iteration of `for ch in text`.
EscapeChar ==
    /\ pc = "run_escape"
    /\ text_pos < Len(RunText(elem))
    /\ out' = EscapeStep(out, RunText(elem)[text_pos + 1])
    /\ text_pos' = text_pos + 1
    /\ UNCHANGED <<pc, elem, latex, splitVars, headingVars, sectionVars, mainVars>>

\* _latex_escape_text returns "".join(out); the run handler returns latex.
RunReturn ==
    /\ pc = "run_escape"
    /\ text_pos = Len(RunText(elem))
    /\ latex' = RunResult(elem, Join(out))
    /\ pc' = "run_done"
    /\ UNCHANGED <<elem, text_pos, out, splitVars, headingVars, sectionVars, mainVars>>

RunNext == EscapeChar \/ RunReturn

SpecRun == RunInit /\ [][RunNext]_vars

(***************************************************************************)
(* Properties of the run translation.                                      *)
(***************************************************************************)
\* ch maps to a multi-letter command: a backslash and letters only.
MapsToCommand(ch) ==
    /\ ch \in DOMAIN UNICODE_TO_LATEX
    /\ Len(UNICODE_TO_LATEX[ch]) >= 3
    /\ UNICODE_TO_LATEX[ch][1] = "\\"
    /\ \A k \in 2 .. Len(UNICODE_TO_LATEX[ch]) : IsAsciiLetter(UNICODE_TO_LATEX[ch][k])

\* The run translated is two characters that both map to commands.
TwoCommandsDone ==
    /\ pc = "run_done"
    /\ Len(RunText(elem)) = 2
    /\ MapsToCommand(RunText(elem)[1])
    /\ MapsToCommand(RunText(elem)[2])

\* C3 (as stated): a run of two consecutive characters that both map to
\* multi-letter commands translates to the two commands with exactly one space
\* between them.
C3_OneSpaceBetweenCommands ==
    TwoCommandsDone =>
        latex = UNICODE_TO_LATEX[RunText(elem)[1]] \o <<" ">>
                    \o UNICODE_TO_LATEX[RunText(elem)[2]]

\* C3 (amended): such a run translates to the two commands with nothing between
\* them; a run flagged plain whose two characters are both letters is instead
\* wrapped, untranslated, in \text{}.
C3_CommandsAdjacent ==
    TwoCommandsDone =>
        IF RunIsNormal(elem) /\ StrIsAlpha(RunText(elem))
        THEN latex = <<"\\", "t", "e", "x", "t", "{">> \o RunText(elem) \o <<"}">>
        ELSE latex = UNICODE_TO_LATEX[RunText(elem)[1]]
                        \o UNICODE_TO_LATEX[RunText(elem)[2]]

\* C3 witness: alpha then beta, not flagged plain, gave \alpha\beta.
C3_Witness ==
    /\ TwoCommandsDone
    /\ RunText(elem) = <<"U03B1", "U03B2">>
    /\ ~RunIsNormal(elem)
    /\ latex = <<"\\", "a", "l", "p", "h", "a", "\\", "b", "e", "t", "a">>

\* C4: in the output built so far, a piece that ends with a multi-letter
\* command is never followed, directly or across pieces that are empty, by a
\* piece that begins with a letter.
C4_NoLetterAfterCommand ==
    \A a, b \in 1 .. Len(out) :
        (/\ a < b
         /\ EndsWithCommand(out[a])
         /\ out[b] # <<>>
         /\ \A k \in (a + 1) .. (b - 1) : out[k] = <<>>)
            => ~IsAlpha(out[b][1])

RECURSIVE omml_to_latex(_)

\* [omml_to_latex(c) for c in elem]
KidsLatex(e) == [k \in 1 .. Len(e.kids) |-> omml_to_latex(e.kids[k])]

\* The value a loop over the children leaves in a local variable that every
\* child of the given tag overwrites: the translation of the last such child,
\* or the initial "".
LastKidLatex(e, tag) ==
    LET ks == KidsTagged(e, tag)
    IN  IF ks = <<>> THEN <<>> ELSE omml_to_latex(ks[Len(ks)])

\* The properties inside the children of e tagged prTag that are tagged
\* propTag, in document order.
PropsTagged(e, prTag, propTag) ==
    LET prs == KidsTagged(e, prTag)
    IN  Join([k \in 1 .. Len(prs) |-> KidsTagged(prs[k], propTag)])

\* tag "nary": char, the m:val of the last m:chr property (default the sum sign).
NaryChar(e) ==
    LET ps == PropsTagged(e, "naryPr", "chr")
    IN  IF ps = <<>> THEN "U2211" ELSE AttrGet(ps[Len(ps)], "U2211")

\* tag "nary": sub_hide / sup_hide, set by the last m:subHide / m:supHide
\* property to whether its m:val is "1".
NaryHide(e, propTag) ==
    LET ps == PropsTagged(e, "naryPr", propTag)
    IN  IF ps = <<>> THEN FALSE ELSE AttrGet(ps[Len(ps)], "0") = "1"

\* nary_map.get(char, r"\sum")
NaryOp(char) ==
    CASE char = "U2211" -> <<"\\", "s", "u", "m">>
      [] char = "U220F" -> <<"\\", "p", "r", "o", "d">>
      [] char = "U222B" -> <<"\\", "i", "n", "t">>
      [] char = "U222E" -> <<"\\", "o", "i", "n", "t">>
      [] char = "U22C3" -> <<"\\", "b", "i", "g", "c", "u", "p">>
      [] char = "U22C2" -> <<"\\", "b", "i", "g", "c", "a", "p">>
      [] OTHER -> <<"\\", "s", "u", "m">>

\* Mutant: the subscript is appended whenever there is one (sub_hide is not
\* consulted).
NaryLatex_IgnoreSubHide(e) ==
    LET sub_val == LastKidLatex(e, "sub")
        sup_val == LastKidLatex(e, "sup")
    IN  NaryOp(NaryChar(e))
            \o (IF sub_val # <<>> THEN <<"_", "{">> \o sub_val \o <<"}">> ELSE <<>>)
            \o (IF sup_val # <<>> /\ ~NaryHide(e, "supHide")
                THEN <<"^", "{">> \o sup_val \o <<"}">> ELSE <<>>)
            \o <<" ">> \o LastKidLatex(e, "e")

\* tag "nary"
NaryLatex(e) ==
    LET sub_val == LastKidLatex(e, "sub")
        sup_val == LastKidLatex(e, "sup")
    IN  NaryOp(NaryChar(e))
            \o (IF sub_val # <<>> /\ ~NaryHide(e, "subHide")
                THEN <<"_", "{">> \o sub_val \o <<"}">> ELSE <<>>)
            \o (IF sup_val # <<>> /\ ~NaryHide(e, "supHide")
                THEN <<"^", "{">> \o sup_val \o <<"}">> ELSE <<>>)
            \o <<" ">> \o LastKidLatex(e, "e")

\* str.replace(old, new): every non-overlapping occurrence, left to right.
RECURSIVE Replace(_, _, _)
Replace(str, old, new) ==
    IF Len(str) < Len(old) \/ str = <<>> THEN str
    ELSE IF SubSeq(str, 1, Len(old)) = old
    THEN new \o Replace(SubSeq(str, Len(old) + 1, Len(str)), old, new)
    ELSE <<str[1]>> \o Replace(Tail(str), old, new)

\* tag "func": known_funcs
known_funcs ==
    {<<"s", "i", "n">>, <<"c", "o", "s">>, <<"t", "a", "n">>, <<"l", "o", "g">>,
     <<"l", "n">>, <<"e", "x", "p">>, <<"l", "i", "m">>, <<"m", "a", "x">>,
     <<"m", "i", "n">>, <<"s", "u", "p">>, <<"i", "n", "f">>, <<"d", "e", "t">>,
     <<"g", "c", "d">>}

\* tag "func": fname.replace("\\mathrm{", "").replace("}", "")
FuncClean(fname) ==
    Replace(Replace(fname, <<"\\", "m", "a", "t", "h", "r", "m", "{">>, <<>>),
            <<"}">>, <<>>)

\* tag "func"
FuncLatex(e) ==
    LET fname == Strip(LastKidLatex(e, "fName"))
        body == LastKidLatex(e, "e")
    IN  IF FuncClean(fname) \in known_funcs
        THEN <<"\\">> \o FuncClean(fname) \o <<" ">> \o body
        ELSE <<"\\", "o", "p", "e", "r", "a", "t", "o", "r", "n", "a", "m", "e", "{">>
                \o fname \o <<"}", " ">> \o body

\* sep.join(parts)
RECURSIVE JoinSep(_, _)
JoinSep(parts, sep) ==
    IF parts = <<>> THEN <<>>
    ELSE IF Len(parts) = 1 THEN parts[1]
    ELSE parts[1] \o sep \o JoinSep(Tail(parts), sep)

\* The characters of an attribute value drawn: none for "", else the one.
ValChars(v) == IF v = "" THEN <<>> ELSE <<v>>

LeftCmd == <<"\\", "l", "e", "f", "t">>
RightCmd == <<"\\", "r", "i", "g", "h", "t">>

\* tag "d": beg_chr / end_chr, the m:val of the last m:begChr / m:endChr
\* property, the default where the property or its value is absent.
DelimChr(e, propTag, default) ==
    LET ps == PropsTagged(e, "dPr", propTag)
    IN  IF ps = <<>> THEN default ELSE AttrGet(ps[Len(ps)], default)

\* The keys of delim_map.
DelimKeys == {"(", ")", "[", "]", "{", "}", "|", "U27E8", "U27E9", "U2016"}

\* delim_map[c]
delim_map(c) ==
    CASE c = "(" -> LeftCmd \o <<"(">>
      [] c = ")" -> RightCmd \o <<")">>
      [] c = "[" -> LeftCmd \o <<"[">>
      [] c = "]" -> RightCmd \o <<"]">>
      [] c = "{" -> LeftCmd \o <<"\\", "{">>
      [] c = "}" -> RightCmd \o <<"\\", "}">>
      [] c = "|" -> LeftCmd \o <<"|">>
      [] c = "U27E8" -> LeftCmd \o <<"\\", "l", "a", "n", "g", "l", "e">>
      [] c = "U27E9" -> RightCmd \o <<"\\", "r", "a", "n", "g", "l", "e">>
      [] c = "U2016" -> LeftCmd \o <<"\\", "|">>

\* Mutant: an end character outside the table closes with a parenthesis.
DelimEnd_DefaultParen(end_chr) ==
    IF end_chr = "|" THEN RightCmd \o <<"|">>
    ELSE IF end_chr = "U2016" THEN RightCmd \o <<"\\", "|">>
    ELSE IF end_chr \in DelimKeys THEN delim_map(end_chr)
    ELSE RightCmd \o <<")">>

\* tag "d": beg_latex
DelimBeg(beg_chr) ==
    IF beg_chr \in DelimKeys THEN delim_map(beg_chr) ELSE LeftCmd \o ValChars(beg_chr)

\* tag "d": end_latex
DelimEnd(end_chr) ==
    IF end_chr = "|" THEN RightCmd \o <<"|">>
    ELSE IF end_chr = "U2016" THEN RightCmd \o <<"\\", "|">>
    ELSE IF end_chr \in DelimKeys THEN delim_map(end_chr)
    ELSE RightCmd \o ValChars(end_chr)

\* tag "d": inner
DelimInnerOf(e) ==
    LET es == KidsTagged(e, "e")
        parts == [k \in 1 .. Len(es) |-> omml_to_latex(es[k])]
    IN  IF Len(parts) > 1 THEN JoinSep(parts, <<",", " ">>) ELSE Join(parts)

\* tag "d"
DelimLatex(e) ==
    DelimBeg(DelimChr(e, "begChr", "(")) \o DelimInnerOf(e)
        \o DelimEnd(DelimChr(e, "endChr", ")"))

\* Mutant: the braces are filled in document order, the first argument from
\* whichever of m:num and m:den comes first.
FracLatex_DocumentOrder(e) ==
    LET ks == SelectSeq(e.kids, LAMBDA c : c.tag \in {"num", "den"})
        first == IF ks = <<>> THEN <<>> ELSE omml_to_latex(ks[1])
        last == IF Len(ks) < 2 THEN <<>> ELSE omml_to_latex(ks[Len(ks)])
    IN  <<"\\", "f", "r", "a", "c", "{">> \o first \o <<"}", "{">> \o last \o <<"}">>

\* tag "f"
FracLatex(e) ==
    <<"\\", "f", "r", "a", "c", "{">> \o LastKidLatex(e, "num")
        \o <<"}", "{">> \o LastKidLatex(e, "den") \o <<"}">>

\* The tags whose element is a container of math.
ContainerTags == {"e", "num", "den", "sub", "sup", "deg", "lim", "fName"}

\* The tags whose element only holds properties.
PropertyTags ==
    {"oMathParaPr", "ctrlPr", "sSubPr", "sSupPr", "sSubSupPr", "dPr", "fPr",
     "naryPr", "accPr", "radPr", "funcPr", "eqArrPr", "groupChrPr", "mPr",
     "boxPr", "limUppPr", "limLowPr", "rPr"}

\* The dispatch on the tag, for the tags of the elements drawn: the display
\* container, the math node, the run, the n-ary operator, the function
\* application, the delimited group, the fraction, the containers and the
\* property holders; an element of any other tag drawn here (m:t, m:sty,
\* property values) takes the fallback.
omml_to_latex(e) ==
    CASE e.tag = "oMathPara" ->
            Join([k \in 1 .. Len(KidsTagged(e, "oMath")) |->
                    omml_to_latex(KidsTagged(e, "oMath")[k])])
      [] e.tag = "oMath" -> _join_latex_parts(KidsLatex(e))
      [] e.tag = "r" -> RunResult(e, _latex_escape_text(RunText(e)))
      [] e.tag = "nary" -> NaryLatex(e)
      [] e.tag = "func" -> FuncLatex(e)
      [] e.tag = "d" -> DelimLatex(e)
      [] e.tag = "f" -> FracLatex(e)
      [] e.tag \in ContainerTags -> _join_latex_parts(KidsLatex(e))
      [] e.tag \in PropertyTags -> <<>>
      [] OTHER -> _join_latex_parts(KidsLatex(e))

(***************************************************************************)
(* The translation of one math element by omml_to_latex.                   *)
(***************************************************************************)
Prop(tag, val) == Node(tag, val, <<>>, <<>>)
Holder(tag, kids) == Node(tag, NoAttr, <<>>, kids)

\* The m:naryPr children drawn: each hide flag absent, "1" or "0", and an
\* integral sign.
NaryPrKinds ==
    {Holder("naryPr", <<>>),
     Holder("naryPr", <<Prop("subHide", "1")>>),
     Holder("naryPr", <<Prop("supHide", "1")>>),
     Holder("naryPr", <<Prop("subHide", "1"), Prop("supHide", "1")>>),
     Holder("naryPr", <<Prop("subHide", "0")>>),
     Holder("naryPr", <<Prop("supHide", "0"), Prop("subHide", NoAttr)>>),
     Holder("naryPr", <<Prop("chr", "U222B"), Prop("supHide", "1")>>)}

\* The limits and the body drawn: a sub of i, an empty sub, a sup of n, an
\* empty sup, a body of x.
NaryKidKinds ==
    NaryPrKinds
    \cup {Holder("sub", <<RunNode(<<"i">>, NoAttr)>>), Holder("sub", <<>>),
          Holder("sup", <<RunNode(<<"n">>, NoAttr)>>), Holder("sup", <<>>),
          Holder("e", <<RunNode(<<"x">>, NoAttr)>>)}

NaryElems == {Holder("nary", ks) : ks \in SeqsOf(NaryKidKinds, 0, MaxNaryKids)}

MathInit ==
    /\ pc = "math_start"
    /\ elem \in NaryElems
    /\ text_pos = 0
    /\ out = <<>>
    /\ latex = <<>>
    /\ SplitIdle /\ HeadingIdle /\ SectionIdle /\ MainIdle

\* latex = omml_to_latex(elem) on an m:nary element.
TranslateNary ==
    /\ pc = "math_start"
    /\ elem.tag = "nary"
    /\ latex' = omml_to_latex(elem)
    /\ pc' = "math_done"
    /\ UNCHANGED <<elem, text_pos, out, splitVars, headingVars, sectionVars, mainVars>>

MathNext == TranslateNary

SpecMath == MathInit /\ [][MathNext]_vars

(***************************************************************************)
(* Properties of the n-ary operator.                                       *)
(***************************************************************************)
NaryDone == pc = "math_done" /\ elem.tag = "nary"

\* The element has a limit child of the given tag.
HasLimit(tag) == \E k \in 1 .. Len(elem.kids) : elem.kids[k].tag = tag

\* The hide flag is set: the last property of that name among the element's
\* n-ary properties has the value "1".
HideSet(propTag) ==
    \E k \in 1 .. Len(elem.kids) :
        /\ elem.kids[k].tag = "naryPr"
        /\ \E j \in 1 .. Len(elem.kids[k].kids) :
              /\ elem.kids[k].kids[j].tag = propTag
              /\ elem.kids[k].kids[j].val = "1"
              /\ \A j2 \in (j + 1) .. Len(elem.kids[k].kids) :
                    elem.kids[k].kids[j2].tag # propTag
              /\ \A k2 \in (k + 1) .. Len(elem.kids) :
                    \A j2 \in 1 .. Len(elem.kids[k2].kids) :
                        ~(elem.kids[k2].tag = "naryPr"
                            /\ elem.kids[k2].kids[j2].tag = propTag)

\* The output holds the character c (the limits and the body drawn hold
\* neither "_" nor "^", so each marks a script the operator emitted).
Emits(c) == \E k \in 1 .. Len(latex) : latex[k] = c

\* C10: a subscript is emitted only when a sub limit is present and subHide is
\* not set, a superscript only when a sup limit is present and supHide is not
\* set, whatever the other flag and the order of the children; with both
\* hidden the output is the operator command, one space and the body.
C10_NaryHideFlags ==
    NaryDone =>
        /\ Emits("_") => HasLimit("sub") /\ ~HideSet("subHide")
        /\ Emits("^") => HasLimit("sup") /\ ~HideSet("supHide")
        /\ (HideSet("subHide") /\ HideSet("supHide")) =>
              latex = NaryOp(NaryChar(elem)) \o <<" ">> \o LastKidLatex(elem, "e")

\* C10 witness: a node with both limits and a body after them, subHide set in
\* its properties coming last, gave the superscript alone.
C10_Witness ==
    /\ NaryDone
    /\ HasLimit("sub") /\ HasLimit("sup")
    /\ HideSet("subHide") /\ ~HideSet("supHide")
    /\ elem.kids[Len(elem.kids)].tag = "naryPr"
    /\ latex = <<"\\", "s", "u", "m", "^", "{", "n", "}", " ", "x">>

(***************************************************************************)
(* The translation of a function application (m:func).                     *)
(***************************************************************************)
\* The names drawn outside known_funcs: a word, a letter, a known name with a
\* closing brace after it.
OtherFuncNames == {<<"f", "o", "o">>, <<"f">>, <<"s", "i", "n", "}">>}

\* The children drawn: the properties, a name run of each known and each
\* other name with and without the plain style, a body of x, a body of 2.
FuncKidKinds ==
    {Holder("funcPr", <<>>),
     Holder("e", <<RunNode(<<"x">>, NoAttr)>>),
     Holder("e", <<RunNode(<<"2">>, NoAttr)>>)}
    \cup {Holder("fName", <<RunNode(name, sty)>>) :
            name \in known_funcs \cup OtherFuncNames, sty \in {NoAttr, "p"}}

FuncElems == {Holder("func", ks) : ks \in SeqsOf(FuncKidKinds, 0, MaxFuncKids)}

FuncInit ==
    /\ pc = "math_start"
    /\ elem \in FuncElems
    /\ text_pos = 0
    /\ out = <<>>
    /\ latex = <<>>
    /\ SplitIdle /\ HeadingIdle /\ SectionIdle /\ MainIdle

\* latex = omml_to_latex(elem) on an m:func element.
TranslateFunc ==
    /\ pc = "math_start"
    /\ elem.tag = "func"
    /\ latex' = omml_to_latex(elem)
    /\ pc' = "math_done"
    /\ UNCHANGED <<elem, text_pos, out, splitVars, headingVars, sectionVars, mainVars>>

FuncNext == TranslateFunc

SpecFunc == FuncInit /\ [][FuncNext]_vars

FuncDone == pc = "math_done" /\ elem.tag = "func"

\* The function-name children and the body children of the element.
FNameKids == SelectSeq(elem.kids, LAMBDA c : c.tag = "fName")
BodyKids == SelectSeq(elem.kids, LAMBDA c : c.tag = "e")

\* The text of the run that names the function (the element has one name
\* child, holding one run).
FuncNameText == RunText(FNameKids[1].kids[1])

\* The translated body: that of the body child.
FuncBody == IF BodyKids = <<>> THEN <<>> ELSE omml_to_latex(BodyKids[Len(BodyKids)])

\* C11: a function application named by a run whose text is one of the
\* thirteen standard names gives "\name", one space and the body, with the
\* plain style flag on the run or without; any other name gives
\* "\operatorname{...}", one space and the body.
C11_FunctionApplication ==
    (FuncDone /\ Len(FNameKids) = 1) =>
        IF FuncNameText \in known_funcs
        THEN latex = <<"\\">> \o FuncNameText \o <<" ">> \o FuncBody
        ELSE /\ Len(latex) >= 16 + Len(FuncBody)
             /\ SubSeq(latex, 1, 14)
                    = <<"\\", "o", "p", "e", "r", "a", "t", "o", "r", "n", "a", "m", "e", "{">>
             /\ SubSeq(latex, Len(latex) - Len(FuncBody) - 1, Len(latex))
                    = <<"}", " ">> \o FuncBody

(***************************************************************************)
(* The translation of a delimited group (m:d).                             *)
(***************************************************************************)
\* The delimiter characters drawn: the keys of the table, the floor brackets,
\* and the empty value Word writes for a missing delimiter.
DelimChars == DelimKeys \cup {"U230A", "U230B", ""}

\* The children drawn: properties with a begin character, an end character,
\* both, neither, or a begin character without value; a body of x, of y, an
\* empty body.
DelimKidKinds ==
    {Holder("dPr", <<>>), Holder("dPr", <<Prop("begChr", NoAttr)>>),
     Holder("e", <<RunNode(<<"x">>, NoAttr)>>),
     Holder("e", <<RunNode(<<"y">>, NoAttr)>>),
     Holder("e", <<>>)}
    \cup {Holder("dPr", <<Prop("begChr", b)>>) : b \in DelimChars}
    \cup {Holder("dPr", <<Prop("endChr", c)>>) : c \in DelimChars}
    \cup {Holder("dPr", <<Prop("begChr", b), Prop("endChr", c)>>) :
            b \in DelimChars, c \in DelimChars}

\* The children the longest groups are drawn from.
CoreDelimKidKinds ==
    {Holder("dPr", <<Prop("begChr", "U27E8"), Prop("endChr", "U27E9")>>),
     Holder("dPr", <<Prop("begChr", "U230A"), Prop("endChr", "U230B")>>),
     Holder("dPr", <<Prop("begChr", "]"), Prop("endChr", "[")>>),
     Holder("dPr", <<Prop("begChr", ""), Prop("endChr", "")>>),
     Holder("e", <<RunNode(<<"x">>, NoAttr)>>),
     Holder("e", <<RunNode(<<"y">>, NoAttr)>>)}

DelimElems ==
    {Holder("d", ks) : ks \in SeqsOf(DelimKidKinds, 0, 2)
                            \cup SeqsOf(CoreDelimKidKinds, 3, MaxDelimKids)}

DelimInit ==
    /\ pc = "math_start"
    /\ elem \in DelimElems
    /\ text_pos = 0
    /\ out = <<>>
    /\ latex = <<>>
    /\ SplitIdle /\ HeadingIdle /\ SectionIdle /\ MainIdle

\* latex = omml_to_latex(elem) on an m:d element.
TranslateDelim ==
    /\ pc = "math_start"
    /\ elem.tag = "d"
    /\ latex' = omml_to_latex(elem)
    /\ pc' = "math_done"
    /\ UNCHANGED <<elem, text_pos, out, splitVars, headingVars, sectionVars, mainVars>>

DelimNext == TranslateDelim

SpecDelim == DelimInit /\ [][DelimNext]_vars

DelimDone == pc = "math_done" /\ elem.tag = "d"

\* The begin and end characters of the group, and its inner content.
BegChr == DelimChr(elem, "begChr", "(")
EndChr == DelimChr(elem, "endChr", ")")
DelimInner == DelimInnerOf(elem)

\* How many times cmd occurs in str.
Occurrences(str, cmd) ==
    Cardinality({k \in 1 .. Len(str) : k + Len(cmd) - 1 <= Len(str)
                                       /\ SubSeq(str, k, k + Len(cmd) - 1) = cmd})

\* C12: a group whose begin and end characters are both outside the delimiter
\* table gives "\left", the begin character, the inner content, "\right" and
\* the end character: one \left and one \right around the content.
C12_DelimiterFallback ==
    (DelimDone /\ BegChr \notin DelimKeys /\ EndChr \notin DelimKeys) =>
        /\ latex = LeftCmd \o ValChars(BegChr) \o DelimInner
                       \o RightCmd \o ValChars(EndChr)
        /\ Occurrences(latex, LeftCmd) = 1
        /\ Occurrences(latex, RightCmd) = 1

\* C12 witness: floor brackets around two bodies.
C12_Witness ==
    /\ DelimDone
    /\ BegChr = "U230A" /\ EndChr = "U230B"
    /\ latex = LeftCmd \o <<"U230A", "x", ",", " ", "y">> \o RightCmd \o <<"U230B">>

\* C16: whatever the begin and end characters, the output is an opening that
\* starts with "\left", the inner content, and a closing that starts with
\* "\right".
C16_DelimiterOrientation ==
    DelimDone =>
        \E i \in 0 .. Len(latex) :
            /\ i + Len(DelimInner) <= Len(latex)
            /\ i >= 5 /\ SubSeq(latex, 1, 5) = LeftCmd
            /\ SubSeq(latex, i + 1, i + Len(DelimInner)) = DelimInner
            /\ i + Len(DelimInner) + 6 <= Len(latex)
            /\ SubSeq(latex, i + Len(DelimInner) + 1, i + Len(DelimInner) + 6) = RightCmd

\* The opening command of a group that begins with the left angle bracket or
\* with the empty character.
LetterOpening ==
    IF BegChr = "U27E8" THEN LeftCmd \o <<"\\", "l", "a", "n", "g", "l", "e">>
    ELSE LeftCmd

\* C17: when the opening command ends in letters (begin character the left
\* angle bracket, or empty) and the inner content starts with a letter, the
\* output does not put that letter right after the command name.
C17_NoMergeAtOpening ==
    (/\ DelimDone
     /\ BegChr \in {"U27E8", ""}
     /\ DelimInner # <<>>
     /\ IsAlpha(DelimInner[1])) =>
        /\ SubSeq(latex, 1, Len(LetterOpening)) = LetterOpening
        /\ ~IsAlpha(latex[Len(LetterOpening) + 1])

(***************************************************************************)
(* The translation of a fraction (m:f).                                    *)
(***************************************************************************)
\* The children drawn: the properties; numerators a, a Greek letter before x,
\* and an empty one; denominators b, 2 and a plain-styled word.
FracKidKinds ==
    {Holder("fPr", <<Prop("type", "bar")>>),
     Holder("num", <<RunNode(<<"a">>, NoAttr)>>),
     Holder("num", <<RunNode(<<"U03B1">>, NoAttr), RunNode(<<"x">>, NoAttr)>>),
     Holder("num", <<>>),
     Holder("den", <<RunNode(<<"b">>, NoAttr)>>),
     Holder("den", <<RunNode(<<"2">>, NoAttr)>>),
     Holder("den", <<RunNode(<<"d", "t">>, "p")>>)}

FracElems == {Holder("f", ks) : ks \in SeqsOf(FracKidKinds, 0, MaxFracKids)}

FracInit ==
    /\ pc = "math_start"
    /\ elem \in FracElems
    /\ text_pos = 0
    /\ out = <<>>
    /\ latex = <<>>
    /\ SplitIdle /\ HeadingIdle /\ SectionIdle /\ MainIdle

\* latex = omml_to_latex(elem) on an m:f element.
TranslateFrac ==
    /\ pc = "math_start"
    /\ elem.tag = "f"
    /\ latex' = omml_to_latex(elem)
    /\ pc' = "math_done"
    /\ UNCHANGED <<elem, text_pos, out, splitVars, headingVars, sectionVars, mainVars>>

FracNext == TranslateFrac

SpecFrac == FracInit /\ [][FracNext]_vars

FracDone == pc = "math_done" /\ elem.tag = "f"

\* The numerator and the denominator children of the fraction.
NumKids == SelectSeq(elem.kids, LAMBDA c : c.tag = "num")
DenKids == SelectSeq(elem.kids, LAMBDA c : c.tag = "den")

\* C15: a fraction with a numerator and a denominator gives "\frac{", the
\* translation of the numerator, "}{", the translation of the denominator and
\* "}", nothing else, in whichever order the two children stand.
C15_Fraction ==
    (FracDone /\ Len(NumKids) = 1 /\ Len(DenKids) = 1) =>
        latex = <<"\\", "f", "r", "a", "c", "{">> \o omml_to_latex(NumKids[1])
                    \o <<"}", "{">> \o omml_to_latex(DenKids[1]) \o <<"}">>

\* C15 witness: the denominator b standing before the numerator a gave
\* \frac{a}{b}.
C15_Witness ==
    /\ FracDone
    /\ \E i, j \in 1 .. Len(elem.kids) :
          /\ i < j
          /\ elem.kids[i] = Holder("den", <<RunNode(<<"b">>, NoAttr)>>)
          /\ elem.kids[j] = Holder("num", <<RunNode(<<"a">>, NoAttr)>>)
    /\ latex = <<"\\", "f", "r", "a", "c", "{", "a", "}", "{", "b", "}">>

(***************************************************************************)
(* The document sequence (parse_document's result).                        *)
(***************************************************************************)
\* Paragraph texts drawn for the segmenter, already as .strip() leaves them.
TextChapter1 == "Chapter 1"
TextChapter2 == "Chapter 2"
TextPart     == "PART I"
TextAppA     == "APPENDIX A"
TextAppB     == "APPENDIX B"
TextBody     == "Body"

\* text_stripped.startswith("PART")
StartsWithPART(text) == text = TextPart

\* re.match(r"Chapter\s+(\d+)", text_stripped): int(m.group(1)), or None.
ChapterMatch(text) ==
    CASE text = TextChapter1 -> 1
      [] text = TextChapter2 -> 2
      [] OTHER -> None

\* obj.style.name.startswith("Heading")
IsHeadingStyle(style) == style = "Heading 1"

Para(style, text) == [etype |-> "paragraph", style |-> style, text |-> text]
TableElem == [etype |-> "table", style |-> "", text |-> ""]

\* The block elements a document is drawn from.
SplitElems ==
    {TableElem}
    \cup {Para("Heading 1", t) : t \in {TextChapter1, TextChapter2, TextPart, TextAppA}}
    \cup {Para("Normal", t) : t \in {TextChapter1, TextPart, TextAppA, TextAppB, TextBody}}

Documents == UNION {[1 .. n -> SplitElems] : n \in 0 .. MaxElems}

\* f"chapter-{ch_num}"
ChapterKeys == <<"chapter-0", "chapter-1", "chapter-2", "chapter-3", "chapter-4",
                 "chapter-5", "chapter-6", "chapter-7", "chapter-8", "chapter-9",
                 "chapter-10", "chapter-11", "chapter-12", "chapter-13", "chapter-14">>
ChapterKey(n) == ChapterKeys[n + 1]

(***************************************************************************)
(* split_into_sections                                                     *)
(***************************************************************************)
\* The paragraph-stream offsets bounding the preface.
PrefaceStartPara == 77
PrefaceEndPara == 92

\* enumerate(): the 0-based indices, in order, at which flags holds.
IndicesWhere(flags) ==
    LET f[i \in 0 .. Len(flags)] ==
            IF i >= Len(flags) THEN <<>>
            ELSE (IF flags[i + 1] THEN <<i>> ELSE <<>>) \o f[i + 1]
    IN  f[0]

IsParagraph(e) == e.etype = "paragraph"

\* elem_indices: para_idx -> ei, as the sequence of ei of the paragraphs.
elem_indices(els) == IndicesWhere([k \in 1 .. Len(els) |-> IsParagraph(els[k])])

\* elem_indices.get(n, 0)
ElemIndexGet(els, n) ==
    IF n < Len(elem_indices(els)) THEN elem_indices(els)[n + 1] ELSE 0

IsHeadingPara(e) == e.etype = "paragraph" /\ IsHeadingStyle(e.style)

\* heading1_indices: the (ei, text) of every Heading-styled paragraph, in order.
heading1_indices(els) ==
    LET eis == IndicesWhere([k \in 1 .. Len(els) |-> IsHeadingPara(els[k])])
    IN  [k \in 1 .. Len(eis) |-> [ei |-> eis[k], text |-> els[eis[k] + 1].text]]

\* chapter_starts: the (ei, ch_num) of every heading that is not a PART heading
\* and matches Chapter <n>.
RECURSIVE ChapterStartsFrom(_, _)
ChapterStartsFrom(hs, k) ==
    IF k > Len(hs) THEN <<>>
    ELSE (IF StartsWithPART(hs[k].text) THEN <<>>
          ELSE IF ChapterMatch(hs[k].text) # None
               THEN <<[ei |-> hs[k].ei, ch_num |-> ChapterMatch(hs[k].text)]>>
               ELSE <<>>)
         \o ChapterStartsFrom(hs, k + 1)

chapter_starts(els) == ChapterStartsFrom(heading1_indices(els), 1)

\* Mutant: the back-up forgets the startswith("PART") test.
PartBackup_AnyHeading(els, next_ei) ==
    LET hs == heading1_indices(els)
        hits == {k \in 1 .. Len(hs) : hs[k].ei = next_ei - 1}
    IN  IF hits = {} THEN next_ei ELSE next_ei - 1

\* Mutant: the back-up looks at the text of any paragraph, heading or not.
PartBackup_AnyParagraph(els, next_ei) ==
    IF /\ next_ei >= 1
       /\ els[next_ei].etype = "paragraph"
       /\ StartsWithPART(els[next_ei].text)
    THEN next_ei - 1
    ELSE next_ei

\* The inner loop of a non-final chapter: the end boundary backs up to a PART
\* heading standing at next_ei - 1.
PartBackup(els, next_ei) ==
    LET hs == heading1_indices(els)
        hits == {k \in 1 .. Len(hs) :
                    hs[k].ei = next_ei - 1 /\ StartsWithPART(hs[k].text)}
    IN  IF hits = {} THEN next_ei ELSE next_ei - 1

IsAppA(e) == e.etype = "paragraph" /\ e.text = TextAppA
IsAppB(e) == e.etype = "paragraph" /\ e.text = TextAppB

\* The scan of the final chapter: the first APPENDIX A paragraph (break).
FirstAppA(els) ==
    LET hits == IndicesWhere([k \in 1 .. Len(els) |-> IsAppA(els[k])])
    IN  IF Len(hits) = 0 THEN None ELSE hits[1]

\* The appendix scan: no break, the last marker of each kind wins.
LastAppA(els) ==
    LET hits == IndicesWhere([k \in 1 .. Len(els) |-> IsAppA(els[k])])
    IN  IF Len(hits) = 0 THEN None ELSE hits[Len(hits)]

LastAppB(els) ==
    LET hits == IndicesWhere([k \in 1 .. Len(els) |-> IsAppB(els[k])])
    IN  IF Len(hits) = 0 THEN None ELSE hits[Len(hits)]

\* The slice the chapter loop stores for chapter_starts[k] (k 0-based).
ChapterSlice(els, k) ==
    LET cs == chapter_starts(els)
        ei == cs[k + 1].ei
    IN  IF k + 1 < Len(cs)
        THEN [start |-> ei, stop |-> PartBackup(els, cs[k + 2].ei)]
        ELSE IF Truthy(FirstAppA(els))
             THEN [start |-> ei, stop |-> FirstAppA(els)]
             ELSE [start |-> ei, stop |-> Len(els)]

\* Lines 630-661: the index tables and sections["preface"].
SplitPreface ==
    /\ pc = "split_start"
    /\ sections' = Put(sections, "preface",
                       [start |-> ElemIndexGet(elements, PrefaceStartPara),
                        stop |-> ElemIndexGet(elements, PrefaceEndPara)])
    /\ idx' = 0
    /\ pc' = "split_chapters"
    /\ UNCHANGED <<elements, headingVars, mathVars, sectionVars, mainVars>>

\* Lines 663-681: one iteration of the loop over chapter_starts.
SplitChapter ==
    /\ pc = "split_chapters"
    /\ idx < Len(chapter_starts(elements))
    /\ sections' = Put(sections,
                       ChapterKey(chapter_starts(elements)[idx + 1].ch_num),
                       ChapterSlice(elements, idx))
    /\ idx' = idx + 1
    /\ UNCHANGED <<pc, elements, headingVars, mathVars, sectionVars, mainVars>>

\* The appendix slices of lines 692-697, added to a dict d.
WithAppendices(els, d) ==
    LET a == LastAppA(els)
        b == LastAppB(els)
        d1 == IF Truthy(a) /\ Truthy(b)
              THEN Put(d, "appendix-a", [start |-> a, stop |-> b])
              ELSE IF Truthy(a)
                   THEN Put(d, "appendix-a", [start |-> a, stop |-> Len(els)])
                   ELSE d
    IN  IF Truthy(b)
        THEN Put(d1, "appendix-b", [start |-> b, stop |-> Len(els)])
        ELSE d1

\* Lines 683-699: the appendix scan, and return.
SplitAppendices ==
    /\ pc = "split_chapters"
    /\ idx = Len(chapter_starts(elements))
    /\ sections' = WithAppendices(elements, sections)
    /\ pc' = "split_done"
    /\ UNCHANGED <<elements, idx, headingVars, mathVars, sectionVars, mainVars>>

SplitInit ==
    /\ pc = "split_start"
    /\ elements \in Documents
    /\ sections = <<>>
    /\ idx = 0
    /\ HeadingIdle /\ MathIdle /\ SectionIdle /\ MainIdle

SplitNext == SplitPreface \/ SplitChapter \/ SplitAppendices

SpecSplit == SplitInit /\ [][SplitNext]_vars

(***************************************************************************)
(* Properties of split_into_sections.                                      *)
(***************************************************************************)
SplitDone == pc = "split_done"

\* The element at 0-based index i.
ElemAt(i) == elements[i + 1]

AllIndices == 0 .. (Len(elements) - 1)

\* The chapter headings of the document, by element index.
ChapterHeadingAt(i) ==
    /\ IsHeadingPara(ElemAt(i))
    /\ ChapterMatch(ElemAt(i).text) # None

ChapterHeadings == {i \in AllIndices : ChapterHeadingAt(i)}

PartHeadingAt(i) == IsHeadingPara(ElemAt(i)) /\ StartsWithPART(ElemAt(i).text)

AppAMarkers == {i \in AllIndices : IsAppA(ElemAt(i))}
AppBMarkers == {i \in AllIndices : IsAppB(ElemAt(i))}

ChapterKeysPresent == {k \in DOMAIN sections : \E n \in 0 .. 14 : k = ChapterKey(n)}

LastChapterHeading == CHOOSE i \in ChapterHeadings : \A j \in ChapterHeadings : j <= i

\* sections[chapter-N] is a slice that begins with the heading of chapter N,
\* for every chapter heading of the document.
EveryChapterStartsWithItsHeading ==
    \A i \in ChapterHeadings :
        LET key == ChapterKey(ChapterMatch(ElemAt(i).text))
        IN  /\ key \in DOMAIN sections
            /\ SliceIndices(sections[key], Len(elements)) # {}
            /\ ChapterHeadingAt(sections[key].start)
            /\ ChapterMatch(ElemAt(sections[key].start).text)
                 = ChapterMatch(ElemAt(i).text)

\* r2 is the chapter slice that follows r1 in document order.
NextSlice(r1, r2) ==
    /\ r1.start < r2.start
    /\ \A k \in ChapterKeysPresent :
          ~(r1.start < sections[k].start /\ sections[k].start < r2.start)

\* Consecutive chapter slices are disjoint and meet, but for one PART heading
\* directly before the next chapter heading.
ChapterSlicesMeet ==
    \A k1, k2 \in ChapterKeysPresent :
        LET r1 == sections[k1]
            r2 == sections[k2]
        IN  NextSlice(r1, r2) =>
              \/ r1.stop = r2.start
              \/ r1.stop = r2.start - 1 /\ PartHeadingAt(r1.stop)

\* The chapter numbers of the headings are pairwise distinct.
DistinctChapterNumbers ==
    \A i, j \in ChapterHeadings :
        ChapterMatch(ElemAt(i).text) = ChapterMatch(ElemAt(j).text) => i = j

\* The first APPENDIX A paragraph stands at an index >= 1 before the last
\* chapter heading.
AppABeforeLastChapter ==
    /\ ChapterHeadings # {}
    /\ \E a \in AppAMarkers :
          /\ \A b \in AppAMarkers : a <= b
          /\ a >= 1
          /\ a < LastChapterHeading

\* C1 (as stated): for every document sequence, every chapter number with a
\* Chapter N heading has a section chapter-N that begins with that heading, and
\* the chapter slices in document order are disjoint and each ends where the
\* next begins, a single PART heading before the next chapter heading excepted.
C1_PartitionCompleteness ==
    SplitDone => EveryChapterStartsWithItsHeading /\ ChapterSlicesMeet

\* C1 (amended): the same, for the document sequences whose chapter headings
\* carry pairwise distinct numbers and whose first APPENDIX A paragraph does not
\* stand at an index >= 1 before the last chapter heading.
C1_PartitionCompleteness_Amended ==
    (SplitDone /\ DistinctChapterNumbers /\ ~AppABeforeLastChapter)
        => EveryChapterStartsWithItsHeading /\ ChapterSlicesMeet

\* C1 witness: two chapters were split, the second one behind a PART heading
\* that no slice holds, after a first chapter of more than its heading.
C1_Witness ==
    /\ SplitDone
    /\ DistinctChapterNumbers /\ ~AppABeforeLastChapter
    /\ Cardinality(ChapterKeysPresent) = 2
    /\ \E k1, k2 \in ChapterKeysPresent :
          /\ sections[k1].stop = sections[k2].start - 1
          /\ PartHeadingAt(sections[k1].stop)
          /\ sections[k1].stop - sections[k1].start >= 2

\* C7: appendix-a is in the result exactly when some paragraph has the text
\* APPENDIX A, appendix-b exactly when some paragraph has the text APPENDIX B,
\* wherever the marker stands; appendix-a runs from its marker to the
\* APPENDIX B marker (to the end without one), appendix-b from its marker to
\* the end of the sequence.
C7_AppendixSections ==
    SplitDone =>
        /\ ("appendix-a" \in DOMAIN sections) <=> (AppAMarkers # {})
        /\ ("appendix-b" \in DOMAIN sections) <=> (AppBMarkers # {})
        /\ "appendix-a" \in DOMAIN sections =>
              /\ sections["appendix-a"].start \in AppAMarkers
              /\ IF AppBMarkers # {}
                 THEN sections["appendix-a"].stop \in AppBMarkers
                 ELSE sections["appendix-a"].stop = Len(elements)
        /\ "appendix-b" \in DOMAIN sections =>
              /\ sections["appendix-b"].start \in AppBMarkers
              /\ sections["appendix-b"].stop = Len(elements)

\* C8: with at least one chapter heading, the section of the last chapter
\* heading ends at the index of the APPENDIX A marker whenever one exists, at
\* the end of the sequence otherwise; when appendix-a exists the last chapter
\* ends at the index where appendix-a begins.
C8_FinalChapterBoundary ==
    (SplitDone /\ ChapterHeadings # {}) =>
        LET key == ChapterKey(ChapterMatch(ElemAt(LastChapterHeading).text))
        IN  /\ key \in DOMAIN sections
            /\ sections[key].start = LastChapterHeading
            /\ IF AppAMarkers # {}
               THEN sections[key].stop \in AppAMarkers
               ELSE sections[key].stop = Len(elements)
            /\ "appendix-a" \in DOMAIN sections =>
                  sections[key].stop = sections["appendix-a"].start

\* The chapter heading whose slice the loop stored last (idx >= 1), and the
\* chapter heading after it.
StoredHeading == chapter_starts(elements)[idx].ei
FollowingHeading == chapter_starts(elements)[idx + 1].ei

\* The loop has just stored the slice of a non-final chapter.
StoredNonFinal ==
    /\ pc = "split_chapters"
    /\ idx >= 1
    /\ idx < Len(chapter_starts(elements))

StoredSlice == sections[ChapterKey(chapter_starts(elements)[idx].ch_num)]

\* C9: a non-final chapter ends at the next chapter heading, or at the PART
\* heading in the slot directly before that heading; such a PART heading is in
\* no chapter section, and a PART heading elsewhere between the two chapter
\* headings is inside the chapter's range.
C9_PartBackup ==
    /\ StoredNonFinal =>
          /\ StoredSlice.start = StoredHeading
          /\ StoredSlice.stop = IF PartHeadingAt(FollowingHeading - 1)
                                THEN FollowingHeading - 1
                                ELSE FollowingHeading
          /\ \A p \in AllIndices :
                (/\ PartHeadingAt(p)
                 /\ StoredHeading < p
                 /\ p < FollowingHeading - 1)
                    => p \in SliceIndices(StoredSlice, Len(elements))
    /\ \A p \in AllIndices :
          (PartHeadingAt(p) /\ (p + 1) \in ChapterHeadings)
              => \A k \in ChapterKeysPresent :
                    p \notin SliceIndices(sections[k], Len(elements))

\* C9 witness: the loop stored a non-final chapter that backs up to a PART
\* heading and keeps an earlier PART heading inside its range.
C9_Witness ==
    /\ StoredNonFinal
    /\ PartHeadingAt(FollowingHeading - 1)
    /\ StoredSlice.stop = FollowingHeading - 1
    /\ \E p \in AllIndices :
          /\ PartHeadingAt(p)
          /\ p < FollowingHeading - 1
          /\ p \in SliceIndices(StoredSlice, Len(elements))

(***************************************************************************)
(* Paragraphs and tables as section_to_html reads them.  A paragraph is    *)
(* its style name and the children of its XML element: word runs (w:r:     *)
(* text, bold, italic) and math (m:oMath, m:oMathPara).  An HTML string is *)
(* a sequence of characters in which a tag or an entity is one item.       *)
(***************************************************************************)
WordRun(text, bold, italic) ==
    [kind |-> "r", text |-> text, bold |-> bold, italic |-> italic, math |-> <<>>]

MathKid(node) ==
    [kind |-> node.tag, text |-> <<>>, bold |-> FALSE, italic |-> FALSE, math |-> node]

Paragraph(style, kids) ==
    [etype |-> "paragraph", style |-> style, kids |-> kids, rows |-> <<>>]

\* A table: rows of cell texts.
Table(rows) == [etype |-> "table", style |-> "", kids |-> <<>>, rows |-> rows]

\* paragraph.runs
Runs(p) == SelectSeq(p.kids, LAMBDA c : c.kind = "r")

\* paragraph.text
ParaText(p) == Join([k \in 1 .. Len(Runs(p)) |-> Runs(p)[k].text])

\* any(MATH_NS in c.tag for c in paragraph._element)
HasMathChild(p) == \E k \in 1 .. Len(p.kids) : p.kids[k].kind # "r"

\* Mutant: only the text is looked at.
para_has_content_TextOnly(p) == Strip(ParaText(p)) # <<>>

para_has_content(p) == Strip(ParaText(p)) # <<>> \/ HasMathChild(p)

\* html.escape(s)
HtmlEscapeChar(c) ==
    CASE c = "&" -> "&amp;"
      [] c = "<" -> "&lt;"
      [] c = ">" -> "&gt;"
      [] c = "\"" -> "&quot;"
      [] c = "'" -> "&#x27;"
      [] OTHER -> c

escape(str) == [k \in 1 .. Len(str) |-> HtmlEscapeChar(str[k])]

\* The bold / italic wrapping of an escaped run text.
Styled(t, bold, italic) ==
    IF bold /\ italic THEN <<"<strong>", "<em>">> \o t \o <<"</em>", "</strong>">>
    ELSE IF bold THEN <<"<strong>">> \o t \o <<"</strong>">>
    ELSE IF italic THEN <<"<em>">> \o t \o <<"</em>">>
    ELSE t

runs_to_html(p) ==
    LET parts == [k \in 1 .. Len(Runs(p)) |->
                    IF escape(Runs(p)[k].text) = <<>> THEN <<>>
                    ELSE Styled(escape(Runs(p)[k].text), Runs(p)[k].bold, Runs(p)[k].italic)]
    IN  IF Join(parts) # <<>> THEN Join(parts) ELSE escape(ParaText(p))

\* _para_xml_to_html: what one child of the paragraph element appends to parts.
ParaKidHtml(c) ==
    IF c.kind = "r"
    THEN IF c.text # <<>> THEN Styled(escape(c.text), c.bold, c.italic) ELSE <<>>
    ELSE IF c.kind = "oMathPara"
    THEN IF Strip(omml_to_latex(c.math)) # <<>>
         THEN <<"\\", "[">> \o Strip(omml_to_latex(c.math)) \o <<"\\", "]">>
         ELSE <<>>
    ELSE IF c.kind = "oMath"
    THEN IF Strip(omml_to_latex(c.math)) # <<>>
         THEN <<"\\", "(">> \o Strip(omml_to_latex(c.math)) \o <<"\\", ")">>
         ELSE <<>>
    ELSE <<>>

\* _para_xml_to_html: (content, has_display_math)
_para_xml_to_html(p) ==
    [content |-> Join([k \in 1 .. Len(p.kids) |-> ParaKidHtml(p.kids[k])]),
     is_display |-> \E k \in 1 .. Len(p.kids) :
                        /\ p.kids[k].kind = "oMathPara"
                        /\ Strip(omml_to_latex(p.kids[k].math)) # <<>>]

paragraph_to_html(p) ==
    IF HasMathChild(p) THEN _para_xml_to_html(p)
    ELSE [content |-> runs_to_html(p), is_display |-> FALSE]

\* table_to_html: the rows, the first of header cells.
table_to_html(t) ==
    [k \in 1 .. Len(t.rows) |->
        [j \in 1 .. Len(t.rows[k]) |->
            [tag |-> IF k = 1 THEN "th" ELSE "td", content |-> escape(t.rows[k][j])]]]

\* The ends of the prefixes of s from position p that match \d+(\.\d+)*.
RECURSIVE NumberEnds(_, _)
NumberEnds(str, p) ==
    LET q == DigitsEnd(str, p)
    IN  IF q = p THEN {}
        ELSE {q} \cup (IF DotAt(str, q) THEN NumberEnds(str, q + 1) ELSE {})

\* re.match(r"^\d+(\.\d+)*\.?\s", text)
NumberedStart(str) ==
    \E q \in NumberEnds(str, 1) :
        \/ q <= Len(str) /\ IsSpace(str[q])
        \/ DotAt(str, q) /\ q + 1 <= Len(str) /\ IsSpace(str[q + 1])

is_section_heading(p) ==
    \E text \in {Strip(ParaText(p))} :
        /\ text # <<>>
        /\ NumberedStart(text)
        /\ \/ /\ Runs(p) # <<>>
              /\ \A k \in 1 .. Len(Runs(p)) :
                    Strip(Runs(p)[k].text) # <<>> => Runs(p)[k].bold
           \/ p.style = "Body Text"

\* text.startswith("•") or text.startswith("- ")
IsListItem(text) ==
    \/ Len(text) >= 1 /\ text[1] = "U2022"
    \/ Len(text) >= 2 /\ text[1] = "-" /\ text[2] = " "

\* "\\(" in content
HasInlineMarker(content) ==
    \E k \in 1 .. (Len(content) - 1) : content[k] = "\\" /\ content[k + 1] = "("

\* One rendered block: f"<{tag}>{content}</{tag}>", with the class of a <p> or
\* <div>; a table carries its rows.
Block(tag, class, content) == [tag |-> tag, class |-> class, content |-> content]

\* The math drawn: x inline, x on display, an m:oMath without children, and
\* a display container of one.
MathX == Holder("oMath", <<RunNode(<<"x">>, NoAttr)>>)
MathParaX == Holder("oMathPara", <<MathX>>)
MathEmpty == Holder("oMath", <<>>)
MathParaEmpty == Holder("oMathPara", <<MathEmpty>>)

\* The elements a section is drawn from.
SectionElems ==
    {Table(<< <<<<"a">>, <<"b">>>>, <<<<"1">>, <<"2">>>> >>),
     Paragraph("Normal", <<>>),
     Paragraph("Normal", <<WordRun(<<" ">>, FALSE, FALSE)>>),
     Paragraph("Normal", <<WordRun(<<"B", "o", "d", "y">>, FALSE, TRUE)>>),
     Paragraph("Heading 1", <<WordRun(<<"C", "h", " ", "1">>, FALSE, FALSE)>>),
     Paragraph("Body Text", <<WordRun(<<"4", ".", "1", " ", "T">>, FALSE, FALSE),
                              MathKid(MathX)>>),
     Paragraph("Normal", <<WordRun(<<"4", ".", " ", "T">>, TRUE, FALSE)>>),
     Paragraph("Normal", <<MathKid(MathX)>>),
     Paragraph("Normal", <<MathKid(MathParaX)>>),
     Paragraph("Normal", <<WordRun(<<"-", " ", "i">>, FALSE, FALSE), MathKid(MathX)>>),
     Paragraph("Normal", <<MathKid(MathEmpty)>>),
     Paragraph("Normal", <<MathKid(MathParaEmpty)>>)}

\* The paragraphs a chapter opens with.
ChapterHeadingPara ==
    Paragraph("Heading 1",
              <<WordRun(<<"C", "h", "a", "p", "t", "e", "r", " ", "1">>, FALSE, FALSE)>>)
SubtitlePara == Paragraph("Normal", <<WordRun(<<"S", "u", "b">>, FALSE, TRUE)>>)

\* The paragraphs drawn, in a section or at the head of a chapter.
ParagraphsDrawn ==
    {e \in SectionElems : e.etype = "paragraph"}
        \cup {ChapterHeadingPara, SubtitlePara}

\* paragraph_to_html on the paragraphs drawn, computed once.
ParagraphHtml == [p \in ParagraphsDrawn |-> paragraph_to_html(p)]

(***************************************************************************)
(* section_to_html, one element of the section per step.                   *)
(***************************************************************************)
\* The element the loop is at, and its 0-based index.
CurElem == section_elements[sec_pos + 1]

InLoop == pc = "section_loop" /\ sec_pos < Len(section_elements)

\* The paragraph passed the content and skip tests.
Rendering ==
    /\ InLoop
    /\ CurElem.etype = "paragraph"
    /\ para_has_content(CurElem)
    /\ ~(skipped < skip_count)

\* html_parts.append(...), with the history of where the block came from.
Emit(block) ==
    /\ html_parts' = Append(html_parts, block)
    /\ rendered_from' = Append(rendered_from, sec_pos)
    /\ sec_pos' = sec_pos + 1

otherThanSection == <<pc, splitVars, headingVars, mathVars, mainVars>>

\* Lines 717-719: a table is rendered at once.
RenderTable ==
    /\ InLoop
    /\ CurElem.etype = "table"
    /\ Emit(Block("table", "", table_to_html(CurElem)))
    /\ UNCHANGED <<section_elements, skip_count, skipped, has_math, elided,
                   otherThanSection>>

\* Lines 721-723: a paragraph without content is passed over.
SkipEmptyParagraph ==
    /\ InLoop
    /\ CurElem.etype = "paragraph"
    /\ ~para_has_content(CurElem)
    /\ sec_pos' = sec_pos + 1
    /\ UNCHANGED <<section_elements, skip_count, skipped, has_math, html_parts,
                   rendered_from, elided, otherThanSection>>

\* Lines 725-727: one of the first skip_count paragraphs with content.
ElideParagraph ==
    /\ InLoop
    /\ CurElem.etype = "paragraph"
    /\ para_has_content(CurElem)
    /\ skipped < skip_count
    /\ skipped' = skipped + 1
    /\ elided' = Append(elided, sec_pos)
    /\ sec_pos' = sec_pos + 1
    /\ UNCHANGED <<section_elements, skip_count, has_math, html_parts,
                   rendered_from, otherThanSection>>

\* Lines 729-732: a Heading-styled paragraph.
RenderHeading1 ==
    /\ Rendering
    /\ IsHeadingStyle(CurElem.style)
    /\ Emit(Block("h1", "", runs_to_html(CurElem)))
    /\ UNCHANGED <<section_elements, skip_count, skipped, has_math, elided,
                   otherThanSection>>

\* Lines 734-740: a numbered sub-section heading.
RenderSubHeading ==
    /\ Rendering
    /\ \E p \in {CurElem} :
          /\ ~IsHeadingStyle(p.style)
          /\ is_section_heading(p)
          /\ \E text \in {Strip(ParaText(p))}, converted \in {ParagraphHtml[p]} :
                Emit(Block(classify_heading_level(text), "", converted.content))
    /\ UNCHANGED <<section_elements, skip_count, skipped, has_math, elided,
                   otherThanSection>>

\* Lines 742-748: a paragraph with display math.
RenderDisplayMath ==
    /\ Rendering
    /\ \E p \in {CurElem} :
          /\ ~IsHeadingStyle(p.style)
          /\ ~is_section_heading(p)
          /\ \E converted \in {ParagraphHtml[p]} :
                /\ converted.is_display
                /\ Emit(Block("div", "math-display", converted.content))
    /\ has_math' = TRUE
    /\ UNCHANGED <<section_elements, skip_count, skipped, elided, otherThanSection>>

\* Lines 749-755: a body paragraph or a list item.
RenderParagraph ==
    /\ Rendering
    /\ \E p \in {CurElem} :
          /\ ~IsHeadingStyle(p.style)
          /\ ~is_section_heading(p)
          /\ \E text \in {Strip(ParaText(p))}, converted \in {ParagraphHtml[p]} :
                /\ ~converted.is_display
                /\ has_math' = (has_math \/ HasInlineMarker(converted.content))
                /\ Emit(Block("p", IF IsListItem(text) THEN "list-item" ELSE "",
                              converted.content))
    /\ UNCHANGED <<section_elements, skip_count, skipped, elided, otherThanSection>>

\* Line 757: return "\n".join(html_parts), has_math
SectionReturn ==
    /\ pc = "section_loop"
    /\ sec_pos = Len(section_elements)
    /\ pc' = "section_done"
    /\ UNCHANGED <<sectionVars, splitVars, headingVars, mathVars, mainVars>>

\* The elements the longest sections are drawn from.
CoreSectionElems ==
    {e \in SectionElems :
        \/ e.etype = "table"
        \/ e.kids = <<WordRun(<<" ">>, FALSE, FALSE)>>
        \/ e.kids = <<WordRun(<<"B", "o", "d", "y">>, FALSE, TRUE)>>
        \/ e.style = "Body Text"
        \/ e.kids = <<MathKid(MathParaX)>>}

Sections ==
    SeqsOf(SectionElems, 0, 3) \cup SeqsOf(CoreSectionElems, 4, MaxSectionLen)

SectionInit ==
    /\ pc = "section_loop"
    /\ section_elements \in Sections
    /\ skip_count \in 0 .. MaxSkip
    /\ sec_pos = 0
    /\ skipped = 0
    /\ has_math = FALSE
    /\ html_parts = <<>>
    /\ rendered_from = <<>>
    /\ elided = <<>>
    /\ SplitIdle /\ HeadingIdle /\ MathIdle /\ MainIdle

SectionNext ==
    \/ RenderTable
    \/ SkipEmptyParagraph
    \/ ElideParagraph
    \/ RenderHeading1
    \/ RenderSubHeading
    \/ RenderDisplayMath
    \/ RenderParagraph
    \/ SectionReturn

SpecSection == SectionInit /\ [][SectionNext]_vars

(***************************************************************************)
(* Properties of section_to_html.                                          *)
(***************************************************************************)
SectionDone == pc = "section_done"

SectionIndices == 0 .. (Len(section_elements) - 1)

\* The paragraph at index i has visible text or embedded math.
ContentAt(i) ==
    /\ section_elements[i + 1].etype = "paragraph"
    /\ \/ \E k \in 1 .. Len(section_elements[i + 1].kids) :
             /\ section_elements[i + 1].kids[k].kind = "r"
             /\ \E j \in 1 .. Len(section_elements[i + 1].kids[k].text) :
                   ~IsSpace(section_elements[i + 1].kids[k].text[j])
       \/ \E k \in 1 .. Len(section_elements[i + 1].kids) :
             section_elements[i + 1].kids[k].kind \in {"oMath", "oMathPara"}

\* How many paragraphs with content stand before index i.
ContentBefore(i) == Cardinality({j \in SectionIndices : j < i /\ ContentAt(j)})

\* The members of a set of indices in increasing order.
RECURSIVE InOrder(_)
InOrder(S) ==
    IF S = {} THEN <<>>
    ELSE LET lo == CHOOSE x \in S : \A y \in S : x <= y
         IN  <<lo>> \o InOrder(S \ {lo})

\* C5: the paragraphs elided are the first skip_count paragraphs with visible
\* text or math (all of them when there are fewer); a paragraph without
\* content is neither rendered nor counted; every table and every later
\* paragraph with content is rendered once, in document order.
C5_SkipCountElision ==
    SectionDone =>
        /\ elided = InOrder({i \in SectionIndices :
                                ContentAt(i) /\ ContentBefore(i) < skip_count})
        /\ rendered_from = InOrder({i \in SectionIndices :
                                \/ section_elements[i + 1].etype = "table"
                                \/ ContentAt(i) /\ ContentBefore(i) >= skip_count})
        /\ Len(html_parts) = Len(rendered_from)
        /\ \A k \in 1 .. Len(html_parts) :
              (html_parts[k].tag = "table")
                  <=> (section_elements[rendered_from[k] + 1].etype = "table")

\* C5 witness: with skip_count 2, a paragraph without content came first, two
\* paragraphs were elided, and a table and a later paragraph were rendered.
C5_Witness ==
    /\ SectionDone
    /\ skip_count = 2
    /\ Len(elided) = 2
    /\ \E i \in SectionIndices :
          /\ section_elements[i + 1].etype = "paragraph"
          /\ ~ContentAt(i)
          /\ i < elided[1]
    /\ \E k \in 1 .. Len(rendered_from) :
          /\ rendered_from[k] > elided[2]
          /\ section_elements[rendered_from[k] + 1].etype = "paragraph"

\* The block holds inline or display math markup.
HasMathMarkup(block) ==
    /\ block.tag # "table"
    /\ \E k \in 1 .. (Len(block.content) - 1) :
          /\ block.content[k] = "\\"
          /\ block.content[k + 1] \in {"(", "["}

\* C6: needs_math is returned true exactly when a rendered paragraph, of
\* whatever kind, put inline or display math markup into the output.
C6_NeedsMathIffMathRendered ==
    SectionDone =>
        (has_math <=> \E k \in 1 .. Len(html_parts) : HasMathMarkup(html_parts[k]))

\* The paragraph at index i has math for its only content, and the math
\* translates to nothing once trimmed.
OnlyEmptyMathAt(i) ==
    /\ section_elements[i + 1].etype = "paragraph"
    /\ section_elements[i + 1].kids # <<>>
    /\ \A k \in 1 .. Len(section_elements[i + 1].kids) :
          /\ section_elements[i + 1].kids[k].kind \in {"oMath", "oMathPara"}
          /\ Strip(omml_to_latex(section_elements[i + 1].kids[k].math)) = <<>>

\* C14: a paragraph whose only content is math that translates to the empty
\* string converts to content without "\[\]" or "\(\)", does not set the
\* display flag, and leaves no block with empty content in the output of
\* section_to_html.
C14_NoEmptyMathBlock ==
    SectionDone =>
        \A i \in SectionIndices :
            OnlyEmptyMathAt(i) =>
                /\ ~paragraph_to_html(section_elements[i + 1]).is_display
                /\ \A k \in 1 .. Len(paragraph_to_html(section_elements[i + 1]).content) :
                      paragraph_to_html(section_elements[i + 1]).content[k] # "\\"
                /\ \A k \in 1 .. Len(rendered_from) :
                      rendered_from[k] = i => html_parts[k].content # <<>>

(***************************************************************************)
(* main: the driver.  The map it reads holds, as the one split_into_       *)
(* sections returns, slices of the document sequence; the elements of the  *)
(* sequence are the paragraphs and tables section_to_html reads.           *)
(***************************************************************************)
NumChapters == 15

\* The names main looks up after the preface.
AppendixKeys == <<"appendix-a", "appendix-b">>
OptionalKeys ==
    {ChapterKey(n) : n \in 0 .. (NumChapters - 1)} \cup {"appendix-a", "appendix-b"}

\* elements[r.start : r.stop]
SliceOf(els, r) ==
    LET hi == IF r.stop < Len(els) THEN r.stop ELSE Len(els)
    IN  IF hi <= r.start THEN <<>> ELSE SubSeq(els, r.start + 1, hi)

\* The call section_to_html(sections[key], skip_count=k): the arguments and
\* the locals at the top of the loop.
CallSectionToHtml(key, k) ==
    /\ section_elements' = SliceOf(elements, sections[key])
    /\ skip_count' = k
    /\ sec_pos' = 0
    /\ skipped' = 0
    /\ has_math' = FALSE
    /\ html_parts' = <<>>
    /\ rendered_from' = <<>>
    /\ elided' = <<>>
    /\ page_id' = key
    /\ pc' = "section_loop"

\* Lines 932-938: the indices of the elements the subtitle loop stops at.
SubtitleCandidates(els) ==
    {i \in 0 .. (Len(els) - 1) :
        /\ els[i + 1].etype = "paragraph"
        /\ ~IsHeadingStyle(els[i + 1].style)
        /\ para_has_content(els[i + 1])}

\* Lines 932-938: the index the subtitle is taken from, None without one.
SubtitleIndex(els) ==
    IF SubtitleCandidates(els) = {} THEN None
    ELSE CHOOSE i \in SubtitleCandidates(els) : \A j \in SubtitleCandidates(els) : i <= j

\* Lines 913-916: the index page.
WriteIndex ==
    /\ pc = "main_index"
    /\ pages' = <<"index">>
    /\ pc' = "main_preface"
    /\ UNCHANGED <<ch_num, app_idx, page_id, warnings, subtitle, subtitle_from,
                   splitVars, headingVars, mathVars, sectionVars>>

\* Lines 919-920: the preface is rendered without its first paragraph.
BeginPreface ==
    /\ pc = "main_preface"
    /\ CallSectionToHtml("preface", 1)
    /\ UNCHANGED <<ch_num, app_idx, pages, warnings, subtitle, subtitle_from,
                   splitVars, headingVars, mathVars>>

\* Lines 921-922: the preface page; the loop over the chapters begins.
WritePreface ==
    /\ pc = "section_done"
    /\ page_id = "preface"
    /\ pages' = Append(pages, page_id)
    /\ ch_num' = 0
    /\ pc' = "main_chapters"
    /\ UNCHANGED <<app_idx, page_id, warnings, subtitle, subtitle_from,
                   splitVars, headingVars, mathVars, sectionVars>>

\* Mutant: a chapter absent from the map ends the run.
WarnChapter_Fatal ==
    /\ pc = "main_chapters"
    /\ ch_num < NumChapters
    /\ ChapterKey(ch_num) \notin DOMAIN sections
    /\ warnings' = Append(warnings, ChapterKey(ch_num))
    /\ pc' = "main_failed"
    /\ UNCHANGED <<ch_num, app_idx, page_id, pages, subtitle, subtitle_from,
                   splitVars, headingVars, mathVars, sectionVars>>

\* Lines 925-929: a chapter absent from the map is reported and passed over.
WarnChapter ==
    /\ pc = "main_chapters"
    /\ ch_num < NumChapters
    /\ ChapterKey(ch_num) \notin DOMAIN sections
    /\ warnings' = Append(warnings, ChapterKey(ch_num))
    /\ ch_num' = ch_num + 1
    /\ UNCHANGED <<pc, app_idx, page_id, pages, subtitle, subtitle_from,
                   splitVars, headingVars, mathVars, sectionVars>>

\* Lines 931-940: the subtitle is extracted and the chapter rendered without
\* its first two paragraphs.
BeginChapter ==
    /\ pc = "main_chapters"
    /\ ch_num < NumChapters
    /\ ChapterKey(ch_num) \in DOMAIN sections
    /\ \E ch_elements \in {SliceOf(elements, sections[ChapterKey(ch_num)])} :
          \E i \in {SubtitleIndex(ch_elements)} :
              /\ subtitle_from' = i
              /\ subtitle' = IF i = None THEN NoSubtitle
                             ELSE [none |-> FALSE,
                                   text |-> Strip(ParaText(ch_elements[i + 1]))]
    /\ CallSectionToHtml(ChapterKey(ch_num), 2)
    /\ UNCHANGED <<ch_num, app_idx, pages, warnings, splitVars, headingVars, mathVars>>

\* Lines 941-944: the chapter page.
WriteChapter ==
    /\ pc = "section_done"
    /\ page_id \notin {"preface", "appendix-a", "appendix-b"}
    /\ pages' = Append(pages, page_id)
    /\ ch_num' = ch_num + 1
    /\ pc' = "main_chapters"
    /\ UNCHANGED <<app_idx, page_id, warnings, subtitle, subtitle_from,
                   splitVars, headingVars, mathVars, sectionVars>>

\* Line 947: the loop over the chapters is over, the one over the appendices
\* begins.
EndChapters ==
    /\ pc = "main_chapters"
    /\ ch_num = NumChapters
    /\ app_idx' = 0
    /\ pc' = "main_appendices"
    /\ UNCHANGED <<ch_num, page_id, pages, warnings, subtitle, subtitle_from,
                   splitVars, headingVars, mathVars, sectionVars>>

\* Lines 949-952: an appendix absent from the map is reported and passed over.
WarnAppendix ==
    /\ pc = "main_appendices"
    /\ app_idx < Len(AppendixKeys)
    /\ AppendixKeys[app_idx + 1] \notin DOMAIN sections
    /\ warnings' = Append(warnings, AppendixKeys[app_idx + 1])
    /\ app_idx' = app_idx + 1
    /\ UNCHANGED <<pc, ch_num, page_id, pages, subtitle, subtitle_from,
                   splitVars, headingVars, mathVars, sectionVars>>

\* Line 953: the appendix is rendered without its first two paragraphs.
BeginAppendix ==
    /\ pc = "main_appendices"
    /\ app_idx < Len(AppendixKeys)
    /\ AppendixKeys[app_idx + 1] \in DOMAIN sections
    /\ CallSectionToHtml(AppendixKeys[app_idx + 1], 2)
    /\ UNCHANGED <<ch_num, app_idx, pages, warnings, subtitle, subtitle_from,
                   splitVars, headingVars, mathVars>>

\* Lines 954-955: the appendix page.
WriteAppendix ==
    /\ pc = "section_done"
    /\ page_id \in {"appendix-a", "appendix-b"}
    /\ pages' = Append(pages, page_id)
    /\ app_idx' = app_idx + 1
    /\ pc' = "main_appendices"
    /\ UNCHANGED <<ch_num, page_id, warnings, subtitle, subtitle_from,
                   splitVars, headingVars, mathVars, sectionVars>>

\* Lines 957-961: the copy of the .docx and "Done!".
CopyDocx ==
    /\ pc = "main_appendices"
    /\ app_idx = Len(AppendixKeys)
    /\ pages' = Append(pages, "Ocean_From_Motion.docx")
    /\ pc' = "main_done"
    /\ UNCHANGED <<ch_num, app_idx, page_id, warnings, subtitle, subtitle_from,
                   splitVars, headingVars, mathVars, sectionVars>>
\* The section every name maps to when the names in the map are what varies.
PlainSection == <<ChapterHeadingPara, SubtitlePara>>

\* The sets of names of the map besides the preface: at most MaxMissing of
\* the names absent, or at most MaxMissing present.
PresentSets ==
    {P \in SUBSET OptionalKeys :
        \/ Cardinality(OptionalKeys \ P) <= MaxMissing
        \/ Cardinality(P) <= MaxMissing}

\* The chapters drawn when the content is what varies: the chapter heading,
\* where split_into_sections starts a chapter, and up to MaxChapterRest
\* elements after it.
ChapterSections ==
    {<<ChapterHeadingPara>> \o rest :
        rest \in SeqsOf(SectionElems, 0, 2)
                    \cup SeqsOf(CoreSectionElems, 3, MaxChapterRest)}

\* The whole sequence as a slice, and the empty slice of a document shorter
\* than the preface offsets.
WholeSlice(els) == [start |-> 0, stop |-> Len(els)]
EmptySlice == [start |-> 0, stop |-> 0]

MainInit ==
    /\ pc = "main_index"
    /\ \/ /\ elements = PlainSection
          /\ \E P \in PresentSets :
                sections = [k \in P \cup {"preface"} |-> WholeSlice(elements)]
       \/ /\ elements \in ChapterSections
          /\ sections = [k \in {"preface", "chapter-1"} |->
                            IF k = "preface" THEN EmptySlice ELSE WholeSlice(elements)]
    /\ idx = 0
    /\ HeadingIdle /\ MathIdle /\ SectionIdle /\ MainIdle

MainNext ==
    \/ WriteIndex
    \/ BeginPreface
    \/ WritePreface
    \/ WarnChapter
    \/ BeginChapter
    \/ WriteChapter
    \/ EndChapters
    \/ WarnAppendix
    \/ BeginAppendix
    \/ WriteAppendix
    \/ CopyDocx
    \/ SectionNext

SpecMain == MainInit /\ [][MainNext]_vars

\* main runs to its end: a step that can be taken is taken.
SpecMainRuns == SpecMain /\ WF_vars(MainNext)

(***************************************************************************)
(* Properties of main.                                                     *)
(***************************************************************************)
MainDone == pc = "main_done"

\* NAV_ORDER without the preface.
NavOrder == ChapterKeys \o AppendixKeys

\* The names of NAV_ORDER that are, or are not, in the map, in that order.
NavPresent == SelectSeq(NavOrder, LAMBDA k : k \in DOMAIN sections)
NavAbsent == SelectSeq(NavOrder, LAMBDA k : k \notin DOMAIN sections)

\* C13: whatever names are absent from the map, main reaches its end, and has
\* then reported each absent name, written the index, the preface and one
\* page for every present name in navigation order, none for an absent name,
\* and made the copy.
C13_MissingSectionsNotFatal ==
    /\ <>MainDone
    /\ [](MainDone =>
            /\ warnings = NavAbsent
            /\ pages = <<"index", "preface">> \o NavPresent
                            \o <<"Ocean_From_Motion.docx">>)

\* C13 witness: main ended with chapters and an appendix absent, having
\* reported them and written the page of a chapter that is present.
C13_Witness ==
    /\ MainDone
    /\ "chapter-3" \notin DOMAIN sections /\ "appendix-a" \notin DOMAIN sections
    /\ \E k \in 1 .. Len(warnings) : warnings[k] = "chapter-3"
    /\ \E k \in 1 .. Len(warnings) : warnings[k] = "appendix-a"
    /\ \E k \in 1 .. Len(pages) : pages[k] = "chapter-1"

\* section_to_html has returned to main with the body of a chapter.
ChapterRendered ==
    /\ pc = "section_done"
    /\ \E n \in 0 .. (NumChapters - 1) : page_id = ChapterKey(n)

\* The element at index i is the chapter's own heading: the first element,
\* where split_into_sections starts the chapter.
IsChapterHeadingAt(i) == i = 0 /\ section_elements[1] = ChapterHeadingPara

\* C18: the paragraph main took the subtitle from is among those
\* section_to_html elided with skip_count 2, and nothing is elided but the
\* chapter heading and that paragraph.
C18_SubtitleElided ==
    ChapterRendered =>
        /\ subtitle_from # None => \E k \in 1 .. Len(elided) : elided[k] = subtitle_from
        /\ \A k \in 1 .. Len(elided) :
              IsChapterHeadingAt(elided[k]) \/ elided[k] = subtitle_from

====
